---- MODULE Spec2Model ----
(***************************************************************************)
(* The signed-request layer of the Flashbots relay client.                 *)
(*                                                                         *)
(* Package flashbot (src/unnamed/part_000; src/Flashbot.go lines 1-263 is  *)
(* an earlier copy of the same code) is the library: New, the four gateway *)
(* methods and requestRPC.  Package Flashbot (src/Flashbot.go lines        *)
(* 265-452) is a draft of the same client whose requestRPC stores the      *)
(* reply in the client.                                                    *)
(*                                                                         *)
(* A gateway call is modelled in two steps, split where the goroutine      *)
(* blocks: the method action runs the handler up to the dispatch of the    *)
(* request by client.Do, and Do runs it from the return of client.Do to    *)
(* the method's return.                                                    *)
(***************************************************************************)
EXTENDS Integers, Sequences, FiniteSets, TLC

\* ------------------------------------------------------------------ inputs

\* Values of the PRIVATE_KEY environment variable: the hex of a secp256k1
\* scalar, text that is no hex scalar, and "" (unset).
PrivateKeyHex == "hex(d1)"
EnvValues == {PrivateKeyHex, "zz", ""}

\* Longest transaction sequence a caller passes.
MaxTxs == 2

\* The goroutines that share the one client.
Callers == {"g1", "g2"}

\* Raw signed transactions a caller may put in a bundle.
Txs == {"0xaa", "0xbb"}

RECURSIVE SeqsUpTo(_)
SeqsUpTo(n) ==
    IF n = 0 THEN {<<>>}
    ELSE LET shorter == SeqsUpTo(n - 1)
         IN shorter \cup {Append(s, t) : s \in {x \in shorter : Len(x) = n - 1}, t \in Txs}

TxSeqs == SeqsUpTo(MaxTxs)

\* Block numbers a caller passes (uint64).
BlockNumbers == {0, 255}

\* The tx argument of SendPrivateTransaction ("" is the empty string).
RawTxs == {"", "0xaa"}

\* --------------------------------------------------------------- constants

MethodSendBundle == "eth_sendBundle"
MethodCallBundle == "eth_callBundle"
MethodSendPrivateTransaction == "eth_sendPrivateTransaction"
MethodGetUserStats == "flashbots_getUserStats"

\* Error values: the nil error, and the package's errors.New (part_000:40-42).
Nil == [error |-> "nil"]
errorTransaction == [error |-> "errorTransaction"]

\* Relay endpoints (RelayDefaultRPC), and a URL that url.Parse refuses
\* (it holds a control character).
MainnetRPC == "https://relay.flashbots.net"
GoerliRPC == "https://relay-goerli.flashbots.net"
BadURL == "https://relay\\x7f"

\* Network labels passed to New.
NetTypes == {"mainnet", "goerli", "ropsten"}

\* ------------------------------------------------------------- hex encoding

HexDigits == <<"0", "1", "2", "3", "4", "5", "6", "7",
               "8", "9", "a", "b", "c", "d", "e", "f">>

\* strconv.AppendUint(enc, i, 16): the digits of i, most significant first,
\* a single "0" for zero.  Go strings are sequences of characters here.
RECURSIVE AppendUint16(_)
AppendUint16(i) ==
    IF i < 16 THEN <<HexDigits[i + 1]>>
    ELSE AppendUint16(i \div 16) \o <<HexDigits[(i % 16) + 1]>>

\* hexutil.EncodeUint64
EncodeUint64(i) == <<"0", "x">> \o AppendUint16(i)

HextoBlockNumber(blockNumber) == EncodeUint64(blockNumber)

\* ------------------------------------------------------------ cryptography

\* Keys: d names the private scalar, curve the curve of the key.
Key1 == [d |-> "d1", curve |-> "secp256k1"]
Key2 == [d |-> "d2", curve |-> "secp256k1"]
KeyP256 == [d |-> "d3", curve |-> "P-256"]
NoKey == [d |-> "", curve |-> ""]

\* crypto.HexToECDSA: (key, err)
crypto_HexToECDSA(hexkey) ==
    IF hexkey = PrivateKeyHex THEN [key |-> Key1, err |-> Nil]
    ELSE [key |-> NoKey, err |-> [error |-> "invalid hex character or length"]]

\* crypto.Keccak256: an injective digest of its input.
Keccak256(data) == [fn |-> "keccak256", of |-> data]

\* hexutil.Encode: "0x" and the hex digits of the bytes.
Encode(b) == [fn |-> "0xhex", of |-> b]

\* len(data) of the byte strings that are hashed: a digest has 32 bytes, its
\* hex text "0x" and two digits a byte.
RECURSIVE ByteLen(_)
ByteLen(b) ==
    IF b.fn = "keccak256" THEN 32
    ELSE IF b.fn = "0xhex" THEN 2 + 2 * ByteLen(b.of)
    ELSE 0

\* accounts.TextHash: keccak256("\x19Ethereum Signed Message:\n" + len + data)
TextHash(data) ==
    Keccak256([prefix |-> "\\x19Ethereum Signed Message:\\n",
               len |-> ByteLen(data), data |-> data])

\* crypto.Sign: (sig, err).  A key that is not on secp256k1 is refused and
\* the signature returned is nil (the empty byte slice).
Sign(digestHash, prv) ==
    IF prv.curve = "secp256k1"
    THEN [sig |-> <<[signedBy |-> prv.d, hash |-> digestHash]>>, err |-> Nil]
    ELSE [sig |-> <<>>, err |-> [error |-> "private key curve is not secp256k1"]]

\* crypto.PubkeyToAddress(privateKey.PublicKey).Hex()
PubkeyToAddress(prv) == [fn |-> "address", of |-> prv.d]

\* part_000:281-283
flashbotHeader(signature, privateKey) ==
    [address |-> PubkeyToAddress(privateKey), sep |-> ":", sig |-> Encode(signature)]

\* SigningHash with the raw digest hashed as the personal message, its hex
\* encoding skipped.
SigningHash_RawDigest(payload) == TextHash(Keccak256(payload))

\* What requestRPC signs (part_000:261-264): the digest of the payload is
\* hex-encoded, and that text is hashed as a personal message.
SigningHash(payload) == TextHash(Encode(Keccak256(payload)))

\* ------------------------------------------------------------ JSON encoding

JString(chars) == [json |-> "string", chars |-> chars]
JNumber(n) == [json |-> "number", n |-> n]

\* A field tagged omitempty is left out when it holds its zero value.
OmitEmpty(name, isZero, value) ==
    IF isZero THEN <<>> ELSE [k \in {name} |-> value]

\* json.Marshal of one parameter value, by its Go type and struct tags.
MarshalValue(v) ==
    CASE v.type = "SendBundleParams" ->
            [txs |-> v.Transactions, blockNumber |-> JString(v.BlockNumber)]
            @@ OmitEmpty("minTimestamp", v.MinTimestamp = 0, JNumber(v.MinTimestamp))
            @@ OmitEmpty("maxTimestamp", v.MaxTimestamp = 0, JNumber(v.MaxTimestamp))
            @@ OmitEmpty("revertingTxHashes", v.RevertingTxHashes = <<>>, v.RevertingTxHashes)
      [] v.type = "CallBundleParams" ->
            [txs |-> v.Transactions, blockNumber |-> JString(v.BlockNumber),
             stateBlockNumber |-> v.StateBlockNumber]
            @@ OmitEmpty("timestamp", v.Timestamp = 0, JNumber(v.Timestamp))
      [] v.type = "SendPrivateTx" ->
            [txs |-> v.Transaction, maxBlockNumber |-> JString(v.MaxBlockNumber),
             preferences |-> "null"]
      [] v.type = "uint64" -> JNumber(v.n)

\* json.Marshal of the envelope (metaRequestParams, part_000:49-54).
Marshal(requestArgs) ==
    [jsonrpc |-> requestArgs.JsonRPC,
     id |-> requestArgs.Id,
     method |-> requestArgs.Method,
     params |-> [i \in 1..Len(requestArgs.Params) |-> MarshalValue(requestArgs.Params[i])]]

\* ------------------------------------------------- parameters and envelope

Reverse(s) == [i \in 1..Len(s) |-> s[Len(s) + 1 - i]]

\* SendBundleParams with the transactions in reverse order.
SendBundleParams_Reversed(transactions, blockNumber) ==
    [type |-> "SendBundleParams",
     Transactions |-> Reverse(transactions),
     BlockNumber |-> HextoBlockNumber(blockNumber),
     MinTimestamp |-> 0, MaxTimestamp |-> 0, RevertingTxHashes |-> <<>>]

\* The composite literal of SendBundle (part_000:182-185).
SendBundleParams(transactions, blockNumber) ==
    [type |-> "SendBundleParams",
     Transactions |-> transactions,
     BlockNumber |-> HextoBlockNumber(blockNumber),
     MinTimestamp |-> 0, MaxTimestamp |-> 0, RevertingTxHashes |-> <<>>]

\* The composite literal of CallBundle (part_000:201-206).
CallBundleParams(transaction, blockNumber) ==
    [type |-> "CallBundleParams",
     Transactions |-> transaction,
     BlockNumber |-> HextoBlockNumber(blockNumber),
     StateBlockNumber |-> "latest",
     Timestamp |-> 1615920932]

\* The composite literal of SendPrivateTransaction (part_000:218-221).
SendPrivateTx(tx, maxBlockNumber) ==
    [type |-> "SendPrivateTx", Transaction |-> tx, MaxBlockNumber |-> maxBlockNumber]

\* A uint64 passed as interface{} (GetUserStats, part_000:233).
Uint64(n) == [type |-> "uint64", n |-> n]

\* The envelope requestRPC builds from its variadic params (part_000:243-248).
metaRequestParams(Method, params) ==
    [JsonRPC |-> "2.0", Id |-> 1, Method |-> Method, Params |-> params \o params]

\* The guard with its bound off by one: len(transactions) < 0.
EmptyTransactions_OffByOne(transactions) == Len(transactions) < 0

\* len(transactions) < 1, the guard of SendBundle and CallBundle.
EmptyTransactions(transactions) == Len(transactions) < 1

\* RelayDefaultRPC (part_000:297-307): (url, err)
RelayDefaultRPC(netType) ==
    CASE netType = "mainnet" -> [rpc |-> MainnetRPC, err |-> Nil]
      [] netType = "goerli" -> [rpc |-> GoerliRPC, err |-> Nil]
      [] OTHER -> [rpc |-> "", err |-> [error |-> "The netType is wrong!:"]]

\* HexToECDSA (part_000:285-291): the key, or log.Fatal.
HexToECDSA(privateKey) ==
    LET r == crypto_HexToECDSA(privateKey)
    IN [key |-> r.key, fatal |-> r.err # Nil]

\* http.NewRequest fails when the URL does not parse.
NewRequestFails(url) == url = BadURL

\* ------------------------------------------------------------ relay replies

\* Bodies the relay answers with: a result, a JSON-RPC error object, and
\* bytes that are not JSON.
ResultBody == [id |-> 1, jsonrpc |-> "2.0", result |-> "result"]
ErrorBody == [id |-> 1, jsonrpc |-> "2.0",
              error |-> [code |-> -32000, message |-> "bundle too large"]]
NotJSON == [garbage |-> TRUE]
Bodies == {ResultBody, ErrorBody, NotJSON}

\* What client.Do returns: (resp, err).  An empty URL has no scheme, so Do
\* fails; any dispatch may fail on the network or time out after 20 s.
TransportError == [err |-> [error |-> "transport"], body |-> NotJSON]
DoOutcomes(url) ==
    IF url = "" THEN {TransportError}
    ELSE {TransportError} \cup {[err |-> Nil, body |-> b] : b \in Bodies}

\* The response struct each method decodes into (part_000:67-71, 83-90,
\* 101-105, 110-114); only CallBundleResponse has an Error field.
ResponseType(op) ==
    CASE op = "SendBundle" -> "SendBundleResponse"
      [] op = "CallBundle" -> "CallBundleResponse"
      [] op = "SendPrivateTransaction" -> "SendPrivateTxResponse"
      [] op = "GetUserStats" -> "UserStatsResponse"

JSONField(body, k, zero) == IF k \in DOMAIN body THEN body[k] ELSE zero

\* json.Unmarshal(resp, new(T)) as the gateway methods use it: (value, err).
\* Keys of the body that T has no field for are dropped; a field the body
\* has no key for keeps its zero value (a nil pointer, an empty string).
\* Bytes that are no JSON (also a body cut short, the error of ioutil.ReadAll
\* being dropped) give a syntax error.  Raw and StatusCode are never set.
Unmarshal(body, type) ==
    IF body = NotJSON
    THEN [value |-> [type |-> "nil"], err |-> [error |-> "json.SyntaxError"]]
    ELSE [value |->
            CASE type = "SendBundleResponse" ->
                    [type |-> type, ID |-> JSONField(body, "id", 0),
                     Version |-> JSONField(body, "jsonrpc", ""),
                     Result |-> JSONField(body, "result", "nil")]
              [] type = "CallBundleResponse" ->
                    [type |-> type, ID |-> JSONField(body, "id", 0),
                     Version |-> JSONField(body, "jsonrpc", ""),
                     Result |-> JSONField(body, "result", "nil"),
                     Error |-> JSONField(body, "error", [code |-> 0, message |-> "nil"]),
                     Raw |-> "", StatusCode |-> 0]
              [] type = "SendPrivateTxResponse" ->
                    [type |-> type, JsonRPC |-> JSONField(body, "jsonrpc", ""),
                     Id |-> JSONField(body, "id", 0),
                     Result |-> JSONField(body, "result", "")]
              [] type = "UserStatsResponse" ->
                    [type |-> type, ID |-> JSONField(body, "id", 0),
                     Version |-> JSONField(body, "jsonrpc", ""),
                     Result |-> JSONField(body, "result", "nil")],
          err |-> Nil]

\* ------------------------------------------------------------------- state

VARIABLES
    env,      \* the PRIVATE_KEY environment variable
    client,   \* the shared *FlashbotLaunch, NoClient before construction
    calls,    \* per caller: where its gateway call stands
    exited    \* "" while the process runs, else the log.Fatal that ended it

vars == <<env, client, calls, exited>>

NoClient == [pkg |-> "none"]
Idle == [pc |-> "idle"]

GatewayOps == {"SendBundle", "CallBundle", "SendPrivateTransaction", "GetUserStats"}

Init ==
    /\ env \in EnvValues
    /\ client = NoClient
    /\ calls = [c \in Callers |-> Idle]
    /\ exited = ""

\* log.Fatal: the process exits with status 1.
Fatal(site) ==
    /\ exited' = site
    /\ UNCHANGED <<env, client, calls>>

Running == exited = ""

\* New (part_000:162-175)
New(relayRPC) ==
    /\ Running
    /\ client = NoClient
    /\ LET rpc == RelayDefaultRPC(relayRPC).rpc
           privateKey == env
       IN IF privateKey = ""
          THEN Fatal("New: The PrivateKey is nil")
          ELSE LET k == HexToECDSA(privateKey)
               IN IF k.fatal
                  THEN Fatal("HexToECDSA")
                  ELSE /\ client' = [pkg |-> "flashbot", Rpc |-> rpc, PrivateKey |-> k.key]
                       /\ UNCHANGED <<env, calls, exited>>

\* A client built as a composite literal of the exported struct
\* (part_000:44-47): its fields are exported, and New takes a network label
\* only, so a literal is how a caller sets another endpoint or key.
FlashbotLaunch(rpc, key) ==
    /\ Running
    /\ client = NoClient
    /\ client' = [pkg |-> "flashbot", Rpc |-> rpc, PrivateKey |-> key]
    /\ UNCHANGED <<env, calls, exited>>

\* requestRPC up to client.Do(req) (part_000:242-272).
requestRPC(c, op, args, Method, params) ==
    LET requestArgs == metaRequestParams(Method, params)
        payload == Marshal(requestArgs)
    IN IF NewRequestFails(client.Rpc)
       THEN Fatal("requestRPC: http.NewRequest")
       ELSE LET headerReady == Sign(SigningHash(payload), client.PrivateKey)
                signature == flashbotHeader(headerReady.sig, client.PrivateKey)
                req == [method |-> "POST", url |-> client.Rpc, body |-> payload,
                        signature |-> signature]
            IN /\ calls' = [calls EXCEPT ![c] =
                     [pc |-> "waiting", op |-> op, args |-> args, params |-> params,
                      req |-> req, signErr |-> headerReady.err]]
               /\ UNCHANGED <<env, client, exited>>

\* A method returns (nil, err) without having called requestRPC: nothing
\* was signed and nothing was handed to the transport.
ReturnEarly(c, op, args, err) ==
    /\ calls' = [calls EXCEPT ![c] =
          [pc |-> "returned", op |-> op, args |-> args, dispatched |-> FALSE,
           signed |-> FALSE, ret |-> [value |-> [type |-> "nil"], err |-> err]]]
    /\ UNCHANGED <<env, client, exited>>

CanCall(c) ==
    /\ Running
    /\ client.pkg = "flashbot"
    /\ calls[c].pc \in {"idle", "returned"}

\* SendBundle (part_000:177-194), up to the dispatch.
SendBundle(c, transactions, blockNumber) ==
    /\ CanCall(c)
    /\ LET in == [transactions |-> transactions, blockNumber |-> blockNumber]
       IN IF EmptyTransactions(transactions)
          THEN ReturnEarly(c, "SendBundle", in, errorTransaction)
          ELSE requestRPC(c, "SendBundle", in, MethodSendBundle,
                          <<SendBundleParams(transactions, blockNumber)>>)

\* CallBundle (part_000:196-215), up to the dispatch.
CallBundle(c, transaction, blockNumber) ==
    /\ CanCall(c)
    /\ LET in == [transactions |-> transaction, blockNumber |-> blockNumber]
       IN IF EmptyTransactions(transaction)
          THEN ReturnEarly(c, "CallBundle", in, errorTransaction)
          ELSE requestRPC(c, "CallBundle", in, MethodCallBundle,
                          <<CallBundleParams(transaction, blockNumber)>>)

\* SendPrivateTransaction (part_000:217-230), up to the dispatch.
SendPrivateTransaction(c, tx, maxBlockNumber) ==
    /\ CanCall(c)
    /\ requestRPC(c, "SendPrivateTransaction",
                  [tx |-> tx, maxBlockNumber |-> maxBlockNumber],
                  MethodSendPrivateTransaction, <<SendPrivateTx(tx, maxBlockNumber)>>)

\* GetUserStats (part_000:232-240), up to the dispatch.
GetUserStats(c, blockNumber) ==
    /\ CanCall(c)
    /\ requestRPC(c, "GetUserStats", [blockNumber |-> blockNumber],
                  MethodGetUserStats, <<Uint64(blockNumber)>>)

\* client.Do returns; the rest of requestRPC (part_000:272-278) and of the
\* method that called it: json.Unmarshal and the return.
Do(c) ==
    /\ Running
    /\ client.pkg = "flashbot"
    /\ calls[c].pc = "waiting"
    /\ \E out \in DoOutcomes(calls[c].req.url) :
          IF out.err # Nil
          THEN Fatal("requestRPC: client.Do")
          ELSE /\ calls' = [calls EXCEPT ![c] =
                     [pc |-> "returned", op |-> @.op,
                      dispatched |-> TRUE, signed |-> TRUE, body |-> out.body,
                      ret |-> Unmarshal(out.body, ResponseType(@.op))]]
               /\ UNCHANGED <<env, client, exited>>

\* ------------------------------------------- package Flashbot (the draft)

NilResponse == [nil |-> TRUE]

\* The key the draft's PrivateKey string holds (the draft keeps the text of
\* PRIVATE_KEY and hands it to crypto.Sign and flashbotHeader).
Flashbot_Key(privateKey) == crypto_HexToECDSA(privateKey).key

\* The key requests of the client are signed with.
ClientKey ==
    IF client.pkg = "Flashbot" THEN Flashbot_Key(client.PrivateKey) ELSE client.PrivateKey

\* New of the draft (Flashbot.go:382-399).  The relayRPC assigned inside
\* the if block is a new variable, so an empty relayRPC stays empty.
Flashbot_New(relayRPC) ==
    /\ Running
    /\ client = NoClient
    /\ LET privateKey == env
       IN IF privateKey = ""
          THEN Fatal("Flashbot.New: The PrivateKey is nil")
          ELSE /\ client' = [pkg |-> "Flashbot", Rpc |-> relayRPC,
                             PrivateKey |-> privateKey, Response |-> NilResponse]
               /\ UNCHANGED <<env, calls, exited>>

\* The envelope of the draft (Flashbot.go:402-407): the params as given.
Flashbot_requestParams(method, params) ==
    [JsonRPC |-> "2.0", Id |-> 1, Method |-> method, Params |-> params]

\* json.Marshal of the draft's envelope (Flashbot.go:285-290): its struct
\* tags are malformed, so the keys are the field names.
Flashbot_Marshal(request) ==
    [JsonRPC |-> request.JsonRPC,
     Id |-> request.Id,
     Method |-> request.Method,
     Params |-> [i \in 1..Len(request.Params) |-> MarshalValue(request.Params[i])]]

\* requestRPC of the draft up to client.Do(req) (Flashbot.go:401-431).
Flashbot_requestRPC(c, op, method, params) ==
    LET request == Flashbot_requestParams(method, params)
        payload == Flashbot_Marshal(request)
    IN IF NewRequestFails(client.Rpc)
       THEN Fatal("Flashbot.requestRPC: http.NewRequest")
       ELSE LET key == Flashbot_Key(client.PrivateKey)
                headerReady == Sign(SigningHash(payload), key)
                signature == flashbotHeader(headerReady.sig, key)
                req == [method |-> "POST", url |-> client.Rpc, body |-> payload,
                        signature |-> signature]
            IN /\ calls' = [calls EXCEPT ![c] =
                     [pc |-> "waiting", op |-> op, args |-> <<>>, params |-> params,
                      req |-> req, signErr |-> headerReady.err]]
               /\ UNCHANGED <<env, client, exited>>

\* SendBundle of the draft (Flashbot.go:375-380), up to the dispatch.
Flashbot_SendBundle(c) ==
    /\ Running
    /\ client.pkg = "Flashbot"
    /\ calls[c].pc \in {"idle", "returned"}
    /\ Flashbot_requestRPC(c, "Flashbot.SendBundle", "flashbots_sendBundle", <<>>)

\* client.Do returns in the draft (Flashbot.go:431-435): the response is
\* stored in the client, shared by all callers; requestRPC returns nothing.
Flashbot_Do(c) ==
    /\ Running
    /\ client.pkg = "Flashbot"
    /\ calls[c].pc = "waiting"
    /\ \E out \in DoOutcomes(calls[c].req.url) :
          /\ client' = [client EXCEPT !.Response =
                           IF out.err # Nil THEN NilResponse ELSE out.body]
          /\ IF out.err # Nil
             THEN /\ exited' = "Flashbot.requestRPC: client.Do"
                  /\ UNCHANGED <<env, calls>>
             ELSE /\ calls' = [calls EXCEPT ![c] =
                        [pc |-> "returned", op |-> @.op,
                         dispatched |-> TRUE, signed |-> TRUE, body |-> out.body,
                         ret |-> [value |-> [type |-> "void"], err |-> Nil]]]
                  /\ UNCHANGED <<env, exited>>

\* ------------------------------------------------------------ specification

\* The maxBlockNumber argument of SendPrivateTransaction, a string.
MaxBlockNumbers == {EncodeUint64(16)}

\* Composite literals a caller builds: a key on another curve, an
\* endpoint that does not parse.
Literals == {[rpc |-> MainnetRPC, key |-> KeyP256], [rpc |-> BadURL, key |-> Key2]}

Next ==
    \/ \E relayRPC \in NetTypes : New(relayRPC)
    \/ \E l \in Literals : FlashbotLaunch(l.rpc, l.key)
    \/ \E c \in Callers, txs \in TxSeqs, bn \in BlockNumbers : SendBundle(c, txs, bn)
    \/ \E c \in Callers, txs \in TxSeqs, bn \in BlockNumbers : CallBundle(c, txs, bn)
    \/ \E c \in Callers, tx \in RawTxs, mbn \in MaxBlockNumbers :
          SendPrivateTransaction(c, tx, mbn)
    \/ \E c \in Callers, bn \in BlockNumbers : GetUserStats(c, bn)
    \/ \E c \in Callers : Do(c)
    \/ \E relayRPC \in {"", MainnetRPC} : Flashbot_New(relayRPC)
    \/ \E c \in Callers : Flashbot_SendBundle(c)
    \/ \E c \in Callers : Flashbot_Do(c)

Spec == Init /\ [][Next]_vars

\* ---------------------------------------------------------------- claims

Waiting(c) == calls[c].pc = "waiting"
Returned(c) == calls[c].pc = "returned"
BundleOps == {"SendBundle", "CallBundle"}

\* C1: for every gateway operation, the params of the envelope requestRPC
\* sends are exactly the parameters it was given, each once and in order:
\* one parameter object gives a params array of length 1.
C1_ParamsPassedSingly ==
    \A c \in Callers :
        (Waiting(c) /\ calls[c].op \in GatewayOps) =>
            /\ Len(calls[c].req.body.params) = Len(calls[c].params)
            /\ \A i \in 1..Len(calls[c].params) :
                  calls[c].req.body.params[i] = MarshalValue(calls[c].params[i])

\* C2: SendBundle and CallBundle called with an empty transaction sequence
\* return the empty-bundle error without signing and without dispatching:
\* no such call is ever waiting on the transport, and a call that returned
\* before requestRPC is one with no transactions, holds errorTransaction and
\* a nil value, and has signed and dispatched nothing.
C2_EmptyBundleFailsFast ==
    \A c \in Callers :
        /\ (Waiting(c) /\ calls[c].op \in BundleOps) =>
              calls[c].args.transactions # <<>>
        /\ (Returned(c) /\ calls[c].op \in BundleOps /\ ~calls[c].dispatched) =>
              /\ calls[c].args.transactions = <<>>
              /\ calls[c].ret.err = errorTransaction
              /\ calls[c].ret.value = [type |-> "nil"]
              /\ ~calls[c].signed

C2_Witness ==
    \E c, d \in Callers :
        /\ Returned(c) /\ calls[c].op = "SendBundle" /\ ~calls[c].dispatched
        /\ calls[c].args.transactions = <<>>
        /\ Returned(d) /\ calls[d].op = "CallBundle" /\ ~calls[d].dispatched
        /\ calls[d].args.transactions = <<>>

\* C3: when the transport succeeds and the reply carries a JSON-RPC error
\* object, the gateway operation returns a RelayError with that code and
\* message, never a value with a nil error.
C3_RelayErrorSurfaced ==
    \A c \in Callers :
        (Returned(c) /\ calls[c].op \in GatewayOps /\ calls[c].dispatched
            /\ calls[c].body = ErrorBody) =>
            calls[c].ret.err = [error |-> "RelayError", code |-> ErrorBody.error.code,
                                message |-> ErrorBody.error.message]

\* C4: no failure path terminates the process.
C4_NeverExits == exited = ""

\* C5: when signing fails inside requestRPC no request is dispatched: every
\* request handed to the transport was signed without error.
C5_SigningFailureNotDispatched ==
    \A c \in Callers : Waiting(c) => calls[c].signErr = Nil

\* C6: the signature header of every dispatched request is
\* address(key) ":" hex(sig), where sig is what signing the personal-message
\* hash of the hex text of keccak256(body) with the client's key returned,
\* body being the body of that same request; and when that key signs, the
\* signature is one by the key the address is derived from, over that hash.
C6_SignatureHeader ==
    \A c \in Callers :
        Waiting(c) =>
            LET r == calls[c].req
                hash == TextHash(Encode(Keccak256(r.body)))
                signed == Sign(hash, ClientKey)
            IN /\ r.signature = [address |-> PubkeyToAddress(ClientKey), sep |-> ":",
                                  sig |-> Encode(signed.sig)]
               /\ calls[c].signErr = Nil =>
                     /\ r.signature.sig.of = <<[signedBy |-> ClientKey.d, hash |-> hash]>>
                     /\ r.signature.address.of = r.signature.sig.of[1].signedBy

C6_Witness ==
    \E c \in Callers :
        /\ Waiting(c) /\ calls[c].op = "SendBundle"
        /\ calls[c].signErr = Nil
        /\ calls[c].req.signature.sig.of # <<>>

\* The value a "0x" hex string denotes.
HexDigitValue(ch) == CHOOSE v \in 0..15 : HexDigits[v + 1] = ch
RECURSIVE HexValue(_)
HexValue(digits) ==
    IF digits = <<>> THEN 0
    ELSE 16 * HexValue(SubSeq(digits, 1, Len(digits) - 1)) + HexDigitValue(digits[Len(digits)])

\* "0x", then at least one hex digit, and no leading zero but in "0x0".
IsMinimalHex(s) ==
    /\ Len(s) >= 3
    /\ s[1] = "0" /\ s[2] = "x"
    /\ \A i \in 3..Len(s) : \E v \in 1..16 : HexDigits[v] = s[i]
    /\ Len(s) > 3 => s[3] # "0"

\* The block reference of a parameter of a request body.
BlockRef(op, param) == IF op = "GetUserStats" THEN param ELSE param.blockNumber

\* C7: every numeric block reference that SendBundle, CallBundle and
\* GetUserStats put in a request body is a JSON string holding the minimal
\* "0x" hex of the block number, never a JSON number.
C7_BlockNumbersAreHex ==
    \A c \in Callers :
        (Waiting(c) /\ calls[c].op \in {"SendBundle", "CallBundle", "GetUserStats"}) =>
            \A i \in 1..Len(calls[c].req.body.params) :
                LET ref == BlockRef(calls[c].op, calls[c].req.body.params[i])
                IN /\ ref.json = "string"
                   /\ IsMinimalHex(ref.chars)
                   /\ HexValue(SubSeq(ref.chars, 3, Len(ref.chars))) = calls[c].args.blockNumber

\* C8: SendPrivateTransaction with an empty rawTransaction fails before
\* signing and dispatch: no such call is ever waiting on the transport.
C8_EmptyRawTransactionNotDispatched ==
    \A c \in Callers :
        (Waiting(c) /\ calls[c].op = "SendPrivateTransaction") => calls[c].args.tx # ""

\* C9: no field of the client is written after construction, so no call
\* overwrites what another call received.
C9_ClientNeverWritten == [][client # NoClient => client' = client]_vars

\* C10: for every non-empty transaction sequence passed to SendBundle or
\* CallBundle, the transactions of the bundle parameters built, and the txs
\* of each parameter object in the request body, are that sequence: the
\* same length, elements and order.
C10_TxsPreserved ==
    \A c \in Callers :
        (Waiting(c) /\ calls[c].op \in BundleOps) =>
            /\ calls[c].params # <<>>
            /\ \A i \in 1..Len(calls[c].params) :
                  calls[c].params[i].Transactions = calls[c].args.transactions
            /\ \A i \in 1..Len(calls[c].req.body.params) :
                  calls[c].req.body.params[i].txs = calls[c].args.transactions

C10_Witness ==
    \E c, d \in Callers :
        /\ Waiting(c) /\ calls[c].op = "SendBundle"
        /\ calls[c].args.transactions = <<"0xaa", "0xbb">>
        /\ calls[c].req.body.params[1].txs = <<"0xaa", "0xbb">>
        /\ Waiting(d) /\ calls[d].op = "CallBundle"
        /\ calls[d].args.transactions = <<"0xbb", "0xaa">>

\* The scheme of a URL: "" has none, the endpoints of the model use https.
Scheme(url) == IF url = "" THEN "" ELSE "https"

\* C11: every client of package flashbot has a non-empty relay endpoint with
\* the https scheme: New with a label other than "mainnet" or "goerli" yields
\* no client (it fails with UnknownNetwork), so no request is ever dispatched
\* to an empty URL.
C11_EndpointNonEmpty ==
    /\ client.pkg = "flashbot" => (client.Rpc # "" /\ Scheme(client.Rpc) = "https")
    /\ \A c \in Callers :
          (Waiting(c) /\ calls[c].op \in GatewayOps) => calls[c].req.url # ""

====
